---- MODULE Spec2Model ----
(***************************************************************************)
(* pyspark-weather-rdd/driver.py: the weather min/max job.                 *)
(*                                                                         *)
(* Station and weather lines are parsed, keyed by usaf + wban, joined,     *)
(* re-keyed by (country, year), aggregated into one WeatherMinMax per key  *)
(* and written as CSV lines.  The module `weather` (StationData,           *)
(* WeatherData, WeatherMinMax, reduce_wmm, combine_wmm) is imported by the *)
(* driver but its text is not part of the sources; those definitions       *)
(* follow spec.md sections 3, 4.1 and 4.5.                                 *)
(*                                                                         *)
(* Numbers are integers in tenths of a unit (the scale of the raw fields); *)
(* an optional value is a sequence of length at most one.                  *)
(***************************************************************************)
EXTENDS Integers, Sequences, FiniteSets, TLC

VARIABLES
    pc,             \* main(): the statement reached
    opts,           \* the parsed command line options
    gateway,        \* the module global `gateway`
    conf,           \* the SparkConf the context was created with
    fs,             \* the file system: path -> content
    preexisting,    \* whether the output location existed when the run started
    weather_minmax, \* the aggregated RDD the job computed: (key, WeatherMinMax) pairs
    observations,   \* partitioned fold: the weather records of one group key
    placed,         \* partitioned fold: record index -> the partition that folded it, 0 if none yet
    partial,        \* partitioned fold: partition -> its partial accumulator for the key
    mergedInto,     \* partitioned fold: partition -> the partition its partial was merged into, 0 if none
    whole,          \* partitioned fold: the one-pass fold of all the records, once run
    call,           \* function level: the function applied and its arguments
    ret             \* function level: what the call returned

jobVars == <<pc, opts, gateway, conf, fs, preexisting, weather_minmax>>
foldVars == <<observations, placed, partial, mergedInto, whole>>
fnVars == <<call, ret>>
vars == <<jobVars, foldVars, fnVars, foldVars>>

----------------------------------------------------------------------------
(* Optional values: Python None and a present float.                       *)

None == <<>>
Some(v) == <<v>>

Min2(x, y) == IF x <= y THEN x ELSE y
Max2(x, y) == IF x >= y THEN x ELSE y

----------------------------------------------------------------------------
(* weather.WeatherMinMax, weather.reduce_wmm, weather.combine_wmm          *)
(* (spec.md 3 "MinMaxAccumulator", 4.5).                                   *)

\* WeatherMinMax(): the accumulator with every extremum None.
WeatherMinMax ==
    [minTemperature |-> None, maxTemperature |-> None,
     minWindSpeed |-> None, maxWindSpeed |-> None]

\* min-ignoring-none and max-ignoring-none of two optional values.
nullsafe_min(a, b) ==
    IF a = None THEN b
    ELSE IF b = None THEN a
    ELSE Some(Min2(a[1], b[1]))

nullsafe_max(a, b) ==
    IF a = None THEN b
    ELSE IF b = None THEN a
    ELSE Some(Max2(a[1], b[1]))

\* merge: per axis min-ignoring-none of the minima, max-ignoring-none of the maxima.
combine_wmm_keeps_left(a, b) ==
    [minTemperature |-> IF a.minTemperature = None THEN b.minTemperature ELSE a.minTemperature,
     maxTemperature |-> nullsafe_max(a.maxTemperature, b.maxTemperature),
     minWindSpeed |-> nullsafe_min(a.minWindSpeed, b.minWindSpeed),
     maxWindSpeed |-> nullsafe_max(a.maxWindSpeed, b.maxWindSpeed)]
combine_wmm(a, b) ==
    [minTemperature |-> nullsafe_min(a.minTemperature, b.minTemperature),
     maxTemperature |-> nullsafe_max(a.maxTemperature, b.maxTemperature),
     minWindSpeed |-> nullsafe_min(a.minWindSpeed, b.minWindSpeed),
     maxWindSpeed |-> nullsafe_max(a.maxWindSpeed, b.maxWindSpeed)]

\* absorb, one bound of one axis: a missing observation leaves the bound
\* alone, a present one displaces None or is compared with the bound.
absorb_min(cur, observed) ==
    IF observed = None THEN cur
    ELSE IF cur = None THEN observed
    ELSE IF observed[1] < cur[1] THEN observed ELSE cur

absorb_max(cur, observed) ==
    IF observed = None THEN cur
    ELSE IF cur = None THEN observed
    ELSE IF observed[1] > cur[1] THEN observed ELSE cur

\* absorb: fold one weather record into the accumulator.
reduce_wmm_falsy(wmm, data) ==
    [minTemperature |->
        IF data.temperatureCelsius = None THEN wmm.minTemperature
        ELSE IF wmm.minTemperature = None \/ wmm.minTemperature[1] = 0
             THEN data.temperatureCelsius
             ELSE Some(Min2(wmm.minTemperature[1], data.temperatureCelsius[1])),
     maxTemperature |-> absorb_max(wmm.maxTemperature, data.temperatureCelsius),
     minWindSpeed |-> absorb_min(wmm.minWindSpeed, data.windSpeedMs),
     maxWindSpeed |-> absorb_max(wmm.maxWindSpeed, data.windSpeedMs)]
reduce_wmm(wmm, data) ==
    [minTemperature |-> absorb_min(wmm.minTemperature, data.temperatureCelsius),
     maxTemperature |-> absorb_max(wmm.maxTemperature, data.temperatureCelsius),
     minWindSpeed |-> absorb_min(wmm.minWindSpeed, data.windSpeedMs),
     maxWindSpeed |-> absorb_max(wmm.maxWindSpeed, data.windSpeedMs)]

----------------------------------------------------------------------------
(* Value domains of the function-level specifications.                     *)

TempVals == {-20, 0, 50}
WindVals == {0, 30}
Opt(S) == {None} \cup {Some(v) : v \in S}

\* Every accumulator over the given values, well-formed or not.
AccOver(T, W) ==
    [minTemperature : Opt(T), maxTemperature : Opt(T),
     minWindSpeed : Opt(W), maxWindSpeed : Opt(W)]

\* The measurements of one weather record.
ObsOver(T, W) == [temperatureCelsius : Opt(T), windSpeedMs : Opt(W)]

NoCall == [fn |-> "none"]
NoRet == [fn |-> "none"]

----------------------------------------------------------------------------
(* driver.py, main(): the two helper functions.                            *)

\* Python's s[0:4]: the first four characters, or all of s when it is shorter.
slice_0_4_first_three(s) == SubSeq(s, 1, Min2(3, Len(s)))
slice_0_4(s) == SubSeq(s, 1, Min2(4, Len(s)))

\* data = (usaf_wban, (weather, station)); returns ((country, year), weather).
\* No statement of the helper raises: attribute reads and a slice.
extract_country_year_weather_whole_date(data) ==
    <<  <<data[2][2].country, data[2][1].date>>,  data[2][1]  >>
extract_country_year_weather(data) ==
    <<  <<data[2][2].country, slice_0_4(data[2][1].date)>>,  data[2][1]  >>

\* Python's `x or 0.0` on an optional float: None and 0.0 are both falsy.
or_zero(x) == IF x = None \/ x[1] = 0 THEN Some(0) ELSE x

\* "%f" of a float held in tenths: sign, integer part, point, six decimals.
Abs(n) == IF n < 0 THEN -n ELSE n
percent_f(t) ==
    (IF t < 0 THEN "-" ELSE "") \o ToString(Abs(t) \div 10) \o "."
        \o ToString(Abs(t) % 10) \o "00000"

\* row = (k, v), k = (country, year), v a WeatherMinMax.  The line holds only
\* ASCII characters, which encode('utf-8') maps to the same bytes.
format_result_swapped(row) ==
    LET k == row[1]
        v == row[2]
        minT == or_zero(v.minTemperature)
        maxT == or_zero(v.maxTemperature)
        minW == or_zero(v.minWindSpeed)
        maxW == or_zero(v.maxWindSpeed)
    IN  k[1] \o "," \o k[2] \o "," \o percent_f(maxT[1]) \o "," \o percent_f(minT[1])
             \o "," \o percent_f(minW[1]) \o "," \o percent_f(maxW[1])
format_result(row) ==
    LET k == row[1]
        v == row[2]
        country == k[1]
        year == k[2]
        minT == or_zero(v.minTemperature)
        maxT == or_zero(v.maxTemperature)
        minW == or_zero(v.minWindSpeed)
        maxW == or_zero(v.maxWindSpeed)
    IN  country \o "," \o year \o "," \o percent_f(minT[1]) \o "," \o percent_f(maxT[1])
                \o "," \o percent_f(minW[1]) \o "," \o percent_f(maxW[1])

----------------------------------------------------------------------------
(* weather.StationData, weather.WeatherData (spec.md 3, 4.1): a line is    *)
(* held as its columns; a numeric column equal to the sentinel is missing. *)

Sentinel == 9999

StationData(line) == [usaf |-> line.usaf, wban |-> line.wban, country |-> line.country]

decode(raw) == IF raw = Sentinel THEN None ELSE Some(raw)

WeatherData(line) ==
    [usaf |-> line.usaf, wban |-> line.wban, date |-> line.date,
     temperatureCelsius |-> decode(line.temperature),
     windSpeedMs |-> decode(line.windSpeed)]

----------------------------------------------------------------------------
(* The engine's operators as the driver uses them.  An RDD is held as the  *)
(* sequence of its elements; transformations are lazy, so every RDD of     *)
(* main() is a definition over the input files, computed when the job runs.*)

MaxStations == 2
MaxWeather == 2
NumPartitions == 2

Partitions == 1..NumPartitions

RECURSIVE Flatten(_)
Flatten(ss) == IF ss = <<>> THEN <<>> ELSE Head(ss) \o Flatten(Tail(ss))

\* rdd.join(other): for every key, every pair of a left and a right value.
join_first_match(left, right) ==
    LET l == left
        r == right
    IN  Flatten([i \in 1..Len(l) |->
            LET hits == SelectSeq(r, LAMBDA e : e[1] = l[i][1])
            IN  IF hits = <<>> THEN <<>>
                ELSE << <<l[i][1], <<l[i][2], hits[1][2]>> >> >>])
join(left, right) ==
    LET l == left
        r == right
    IN  Flatten([i \in 1..Len(l) |->
            LET hits == SelectSeq(r, LAMBDA e : e[1] = l[i][1])
            IN  [j \in 1..Len(hits) |-> <<l[i][1], <<l[i][2], hits[j][2]>> >>]])

\* lambda data: data.usaf + data.wban
usaf_wban_usaf_only(data) == data.usaf
usaf_wban(data) == data.usaf \o data.wban

\* The keys of a pair RDD, each once, in order of first occurrence.
RECURSIVE KeysOf(_)
KeysOf(rdd) ==
    IF rdd = <<>> THEN <<>>
    ELSE LET k == Head(rdd)[1]
         IN  <<k>> \o KeysOf(SelectSeq(Tail(rdd), LAMBDA e : e[1] # k))

\* aggregateByKey(WeatherMinMax(), reduce_wmm, combine_wmm), line 109.
zeroValue_zeros ==
    [minTemperature |-> Some(0), maxTemperature |-> Some(0),
     minWindSpeed |-> Some(0), maxWindSpeed |-> Some(0)]
zeroValue == WeatherMinMax
seqOp(acc, data) == reduce_wmm(acc, data)
combOp_drops_right(a, b) == a
combOp(a, b) == combine_wmm(a, b)

\* The fold of the values of a sequence of pairs, left to right.
RECURSIVE FoldValues(_, _)
FoldValues(acc, elems) ==
    IF elems = <<>> THEN acc
    ELSE FoldValues(seqOp(acc, Head(elems)[2]), Tail(elems))

\* The merge of a sequence of accumulators, left to right.
RECURSIVE MergeAll(_)
MergeAll(accs) ==
    IF Len(accs) = 1 THEN accs[1]
    ELSE MergeAll(<<combOp(accs[1], accs[2])>> \o SubSeq(accs, 3, Len(accs)))

\* rdd.aggregateByKey: in every partition the elements of a key are folded
\* from the zero value with seqOp; the partials of a key are merged with
\* combOp.  `assign` gives the partition of a join key: map() keeps the
\* elements where the join left them, partitioned by the join key.
aggregateByKey(pairs, assign) ==
    LET rdd == pairs
        place(e) == assign[usaf_wban(e[2])]
        keys == KeysOf(rdd)
        folded(k, p) ==
            FoldValues(zeroValue, SelectSeq(rdd, LAMBDA e : e[1] = k /\ place(e) = p))
        holds(k, p) == \E i \in 1..Len(rdd) : rdd[i][1] = k /\ place(rdd[i]) = p
        partials(k) ==
            LET ps == SelectSeq([p \in Partitions |-> p], LAMBDA p : holds(k, p))
            IN  [n \in 1..Len(ps) |-> folded(k, ps[n])]
    IN  [n \in 1..Len(keys) |-> <<keys[n], MergeAll(partials(keys[n]))>>]

----------------------------------------------------------------------------
(* main(): the RDDs of lines 84-109 over the files the options name.       *)

Argv == [stations |-> "in/stations", weather |-> "in/weather", output |-> "out"]

\* sc.textFile(...).map(...), lines 84-88.
stations ==
    LET lines == fs[opts.stations]
    IN  [i \in 1..Len(lines) |-> StationData(lines[i])]
weather ==
    LET lines == fs[opts.weather]
    IN  [i \in 1..Len(lines) |-> WeatherData(lines[i])]

\* rdd.keyBy(lambda data: data.usaf + data.wban), lines 90-91.
station_index ==
    LET rdd == stations
    IN  [i \in 1..Len(rdd) |-> <<usaf_wban(rdd[i]), rdd[i]>>]
weather_index ==
    LET rdd == weather
    IN  [i \in 1..Len(rdd) |-> <<usaf_wban(rdd[i]), rdd[i]>>]

joined_weather == join(weather_index, station_index)

weather_per_country_and_year ==
    LET rdd == joined_weather
    IN  [i \in 1..Len(rdd) |-> extract_country_year_weather(rdd[i])]

\* The keys of the joined pairs: what the join's output is partitioned by.
JoinKeys == LET jw == joined_weather IN {jw[i][1] : i \in 1..Len(jw)}

----------------------------------------------------------------------------
(* main() step by step.                                                    *)

\* SparkConf(): output validation is on unless the configuration says otherwise.
SparkConf == [validateOutputSpecs |-> "true"]

\* conf.set("spark.hadoop.validateOutputSpecs", "false"), line 50.
conf_of_create_context_unset == SparkConf
conf_of_create_context == [SparkConf EXCEPT !.validateOutputSpecs = "false"]

\* opts = parse_options(), line 77.
parse_options ==
    /\ pc = "start"
    /\ opts' = Argv
    /\ pc' = "parsed"
    /\ UNCHANGED <<gateway, conf, fs, preexisting, weather_minmax, fnVars, foldVars>>

\* sc = create_context(appName="WordCount"), line 80; get_py4j_gateway
\* launches the gateway when the global is still unset.
create_context ==
    /\ pc = "parsed"
    /\ conf' = conf_of_create_context
    /\ gateway' = IF gateway = "None" THEN "launched" ELSE gateway
    /\ pc' = "context"
    /\ UNCHANGED <<opts, fs, preexisting, weather_minmax, fnVars, foldVars>>

\* Lines 84-126: the transformations are set up and saveAsTextFile runs the
\* job.  The save checks the output location first when validation is on;
\* otherwise the job runs and writes its part files into the location, over
\* the files of the same name.  The content of the location is held as the
\* lines of those part files.
saveAsTextFile ==
    /\ pc = "context"
    /\ IF conf.validateOutputSpecs = "true" /\ fs[opts.output] # None
       THEN /\ pc' = "failed"
            /\ UNCHANGED <<fs, weather_minmax>>
       ELSE LET keyed == weather_per_country_and_year
            IN  \E assign \in [JoinKeys -> Partitions] :
              LET result == aggregateByKey(keyed, assign)
              IN  /\ weather_minmax' = result
                  /\ fs' = [fs EXCEPT ![opts.output] =
                              Some([i \in 1..Len(result) |-> format_result(result[i])])]
                  /\ pc' = "done"
    /\ UNCHANGED <<opts, gateway, conf, preexisting, fnVars, foldVars>>

\* The input files: the station and weather lines the run may be given.
StationIdents == << <<"01", "7">>, <<"02", "9">> >>
WeatherIdents == << <<"01", "7">>, <<"02", "9">>, <<"01", "9">> >>
CountrySeq == <<"US", "DE">>
DateSeq == <<"20230101", "20241231">>
RawSeq == << <<50, 30>>, <<-20, Sentinel>> >>

StationLine(n) ==
    LET id == StationIdents[(n % Len(StationIdents)) + 1]
    IN  [usaf |-> id[1], wban |-> id[2],
         country |-> CountrySeq[((n \div Len(StationIdents)) % Len(CountrySeq)) + 1]]
NumStationLines == Len(StationIdents) * Len(CountrySeq)

WeatherLine(n) ==
    LET ni == Len(WeatherIdents)
        nd == Len(DateSeq)
        id == WeatherIdents[(n % ni) + 1]
        raw == RawSeq[((n \div (ni * nd)) % Len(RawSeq)) + 1]
    IN  [usaf |-> id[1], wban |-> id[2], date |-> DateSeq[((n \div ni) % nd) + 1],
         temperature |-> raw[1], windSpeed |-> raw[2]]
NumWeatherLines == Len(WeatherIdents) * Len(DateSeq) * Len(RawSeq)

\* The files up to the order of their lines: no stage of the job depends on it.
Ascending(f) == \A i \in DOMAIN f : \A j \in DOMAIN f : i < j => f[i] <= f[j]
FilesOf(num, max) ==
    {f \in UNION {[1..n -> 0..(num - 1)] : n \in 0..max} : Ascending(f)}

StaleOutput == Some(<<"stale">>)

NoOpts == [stations |-> "", weather |-> "", output |-> ""]

JobIdle ==
    /\ pc = "idle" /\ opts = NoOpts /\ gateway = "None" /\ conf = SparkConf
    /\ fs = <<>> /\ preexisting = FALSE /\ weather_minmax = <<>>


----------------------------------------------------------------------------
(* aggregateByKey step by step, for the records of one group key: the      *)
(* engine hands every record to some partition, which folds it into its    *)
(* partial accumulator with seqOp; partials are merged with combOp, in any *)
(* order and as soon as they exist.  Before it, the one-pass fold of the   *)
(* same records, in an order of its own, gives the value to compare with.  *)

MaxObs == 3

FoldTemps == <<None, Some(-20), Some(0), Some(50)>>
FoldWinds == <<None, Some(30)>>
Observation(n) ==
    [temperatureCelsius |-> FoldTemps[(n % Len(FoldTemps)) + 1],
     windSpeedMs |-> FoldWinds[((n \div Len(FoldTemps)) % Len(FoldWinds)) + 1]]
NumObservations == Len(FoldTemps) * Len(FoldWinds)

NoWhole == [done |-> FALSE, acc |-> zeroValue]

\* The partitions that hold a partial accumulator for the key.
Live == {p \in Partitions : mergedInto[p] = 0 /\ \E i \in DOMAIN placed : placed[i] = p}

\* A partition folds one more record of the key.
SeqOpStep(p, i) ==
    /\ whole.done
    /\ placed[i] = 0
    /\ mergedInto[p] = 0
    /\ partial' = [partial EXCEPT ![p] = seqOp(partial[p], observations[i])]
    /\ placed' = [placed EXCEPT ![i] = p]
    /\ UNCHANGED <<observations, mergedInto, whole, jobVars, fnVars>>

\* The partial of partition q is merged into the partial of partition p.
CombOpStep(p, q) ==
    /\ p # q /\ p \in Live /\ q \in Live
    /\ partial' = [partial EXCEPT ![p] = combOp(partial[p], partial[q])]
    /\ mergedInto' = [mergedInto EXCEPT ![q] = p]
    /\ UNCHANGED <<observations, placed, whole, jobVars, fnVars>>

\* The orders in which n records can be folded.
Orders(n) == {o \in [1..n -> 1..n] : \A i \in 1..n : \A j \in 1..n : i # j => o[i] # o[j]}

RECURSIVE FoldRecords(_, _)
FoldRecords(acc, records) ==
    IF records = <<>> THEN acc
    ELSE FoldRecords(seqOp(acc, Head(records)), Tail(records))

\* The one-pass fold of all the records, in any order.
FoldWhole ==
    /\ ~whole.done
    /\ \E o \in Orders(Len(observations)) :
          whole' = [done |-> TRUE,
                    acc |-> FoldRecords(zeroValue,
                                [n \in 1..Len(observations) |-> observations[o[n]]])]
    /\ UNCHANGED <<observations, placed, partial, mergedInto, jobVars, fnVars>>

FoldIdle ==
    /\ observations = <<>> /\ placed = <<>>
    /\ partial = [p \in Partitions |-> zeroValue]
    /\ mergedInto = [p \in Partitions |-> 0] /\ whole = NoWhole

----------------------------------------------------------------------------
(* Function-level specifications: Init draws the arguments, one action     *)
(* per function applies it and records what it returned.                   *)

Countries == {"US", "DE"}
Dates == {"20230101", "20230215", "20241231"}
ShortDates == {"", "2", "202"}
Years == {"2023", "2024"}

FnStation == [usaf : {"01"}, wban : {"7"}, country : Countries]
FnWeather ==
    [usaf : {"01"}, wban : {"7"}, date : Dates \cup ShortDates,
     temperatureCelsius : Opt({-20}), windSpeedMs : {None}]

AbsorbCalls ==
    {[fn |-> "reduce_wmm", args |-> <<a, o>>] :
        a \in AccOver(TempVals, WindVals), o \in ObsOver(TempVals, WindVals)}
FormatCalls ==
    {[fn |-> "format_result", args |-> << <<k, v>> >>] :
        k \in Countries \X Years, v \in AccOver(TempVals, WindVals)}
ExtractCalls ==
    {[fn |-> "extract_country_year_weather", args |-> << <<w.usaf \o w.wban, <<w, s>> >> >>] :
        w \in FnWeather, s \in FnStation}
MergeAcc == AccOver(TempVals, {30})

\* absorb(a, obs) next to merge(a, absorb(identity, obs)).
CallAbsorb ==
    /\ call.fn = "reduce_wmm" /\ ret = NoRet
    /\ ret' = [fn |-> "reduce_wmm",
               direct |-> reduce_wmm(call.args[1], call.args[2]),
               merged |-> combine_wmm(call.args[1],
                                      reduce_wmm(WeatherMinMax, call.args[2]))]
    /\ UNCHANGED <<call, jobVars, foldVars>>

CallFormat ==
    /\ call.fn = "format_result" /\ ret = NoRet
    /\ ret' = [fn |-> "format_result", line |-> format_result(call.args[1])]
    /\ UNCHANGED <<call, jobVars, foldVars>>

CallExtract ==
    /\ call.fn = "extract_country_year_weather" /\ ret = NoRet
    /\ ret' = [fn |-> "extract_country_year_weather", raised |-> "none",
               value |-> extract_country_year_weather(call.args[1])]
    /\ UNCHANGED <<call, jobVars, foldVars>>

\* merge(merge(a,b),c) next to merge(a,merge(b,c)).
CallMergeAssoc ==
    /\ call.fn = "combine_wmm" /\ ret = NoRet
    /\ ret' = [fn |-> "assoc",
               left |-> combine_wmm(combine_wmm(call.args[1], call.args[2]), call.args[3]),
               right |-> combine_wmm(call.args[1], combine_wmm(call.args[2], call.args[3]))]
    /\ UNCHANGED <<call, jobVars, foldVars>>

\* merge(a,b) next to merge(b,a).
CallMergeComm ==
    /\ call.fn = "combine_wmm" /\ ret = NoRet
    /\ ret' = [fn |-> "comm",
               left |-> combine_wmm(call.args[1], call.args[2]),
               right |-> combine_wmm(call.args[2], call.args[1])]
    /\ UNCHANGED <<call, jobVars, foldVars>>

FnIdle == call = NoCall /\ ret = NoRet

----------------------------------------------------------------------------
(* The specifications.                                                     *)

\* One run of the driver on given input files and output location.
Init ==
    /\ pc = "start"
    /\ opts = NoOpts
    /\ gateway = "None"
    /\ conf = SparkConf
    /\ \E s \in FilesOf(NumStationLines, MaxStations) :
       \E w \in FilesOf(NumWeatherLines, MaxWeather) :
       \E out \in {None, StaleOutput} :
          /\ fs = (Argv.stations :> [i \in DOMAIN s |-> StationLine(s[i])])
                  @@ (Argv.weather :> [i \in DOMAIN w |-> WeatherLine(w[i])])
                  @@ (Argv.output :> out)
          /\ preexisting = (out # None)
    /\ weather_minmax = <<>>
    /\ FnIdle /\ FoldIdle

Next == parse_options \/ create_context \/ saveAsTextFile
Spec == Init /\ [][Next]_vars

\* absorb, format_result and extract_country_year_weather on drawn arguments.
InitFn ==
    /\ call \in AbsorbCalls \cup FormatCalls \cup ExtractCalls
    /\ ret = NoRet
    /\ JobIdle /\ FoldIdle
NextFn == CallAbsorb \/ CallFormat \/ CallExtract
SpecFn == InitFn /\ [][NextFn]_vars

\* merge on drawn triples of accumulators.
InitMerge ==
    /\ \E a \in MergeAcc, b \in MergeAcc, c \in MergeAcc :
          call = [fn |-> "combine_wmm", args |-> <<a, b, c>>]
    /\ ret = NoRet
    /\ JobIdle /\ FoldIdle
NextMerge == CallMergeAssoc \/ CallMergeComm
SpecMerge == InitMerge /\ [][NextMerge]_vars

\* The one-pass fold of one key's records, then their partitioned fold.
InitFold ==
    /\ \E f \in FilesOf(NumObservations, MaxObs) :
          /\ f # <<>>
          /\ observations = [i \in DOMAIN f |-> Observation(f[i])]
          /\ placed = [i \in DOMAIN f |-> 0]
    /\ partial = [p \in Partitions |-> zeroValue]
    /\ mergedInto = [p \in Partitions |-> 0]
    /\ whole = NoWhole
    /\ JobIdle /\ FnIdle
NextFold ==
    \/ \E p \in Partitions : \E i \in DOMAIN placed : SeqOpStep(p, i)
    \/ \E p \in Partitions : \E q \in Partitions : CombOpStep(p, q)
    \/ FoldWhole
SpecFold == InitFold /\ [][NextFold]_vars

----------------------------------------------------------------------------
(* The properties.                                                         *)

\* The partitioned run is over: every record folded, one partial left.
FoldFinished ==
    /\ whole.done
    /\ \A i \in DOMAIN placed : placed[i] # 0
    /\ Cardinality(Live) = 1

\* C1: whatever the split of one key's records over the partitions, the
\* order in which each partition folds and the order in which the partials
\* are merged, the last partial left equals the one-pass fold of all the
\* records from the all-None accumulator.
C1_PartitionInvariance ==
    FoldFinished => \A p \in Live : partial[p] = whole.acc

C1_Witness ==
    /\ FoldFinished
    /\ Len(observations) = 3
    /\ \E q \in Partitions : mergedInto[q] # 0 /\ \E i \in DOMAIN placed : placed[i] = q
    /\ \E i \in DOMAIN observations : observations[i].windSpeedMs = None
    /\ whole.acc = [minTemperature |-> Some(-20), maxTemperature |-> Some(50),
                    minWindSpeed |-> Some(30), maxWindSpeed |-> Some(30)]

\* C2: merge is associative and commutative on every triple and pair of
\* accumulators, well-formed or not.
C2_MergeAssociativeCommutative ==
    ret.fn \in {"assoc", "comm"} => ret.left = ret.right

C2_Witness ==
    /\ ret.fn = "assoc"
    /\ call.args[1].minTemperature = Some(50)
    /\ call.args[2].minTemperature = None
    /\ call.args[3].minTemperature = Some(-20)
    /\ call.args[3].maxWindSpeed = Some(30)
    /\ ret.left.minTemperature = Some(-20)
    /\ ret.right.maxWindSpeed = Some(30)

\* C3: absorbing a record into an accumulator gives what merging the
\* accumulator with the record absorbed into the all-None accumulator gives.
C3_AbsorbIsMergeOfSingleton ==
    ret.fn = "reduce_wmm" => ret.direct = ret.merged

C3_Witness ==
    /\ ret.fn = "reduce_wmm"
    /\ call.args[1].minTemperature = Some(0)
    /\ call.args[1].maxWindSpeed = Some(30)
    /\ call.args[2].temperatureCelsius = Some(50)
    /\ call.args[2].windSpeedMs = None
    /\ ret.direct.minTemperature = Some(0)
    /\ ret.direct.maxTemperature = Some(50)

\* The identity of a station or weather record.
ident(d) == <<d.usaf, d.wban>>

\* The group key of a weather record joined with a station record.
groupKey(w, s) == <<s.country, SubSeq(w.date, 1, 4)>>

Matches(w) == {j \in 1..Len(stations) : ident(stations[j]) = ident(w)}

\* C4: the join pairs records of equal (usaf, wban) only; a weather record
\* whose identity no station has is in no joined pair, the run still ends
\* without error, and every output row's key comes from a joined pair; a
\* weather record that matches a station is in a joined pair and its
\* (country, year) group has an output row.
C4_JoinDropsMisses ==
    /\ pc # "failed"
    /\ pc = "done" =>
         LET ws == weather
             ss == stations
             jw == joined_weather
         IN  /\ \A n \in 1..Len(jw) : ident(jw[n][2][1]) = ident(jw[n][2][2])
             /\ \A i \in 1..Len(ws) :
                  IF Matches(ws[i]) = {}
                  THEN \A n \in 1..Len(jw) : jw[n][2][1] # ws[i]
                  ELSE \E n \in 1..Len(jw) :
                         /\ jw[n][2][1] = ws[i]
                         /\ \E m \in 1..Len(weather_minmax) :
                              weather_minmax[m][1] = groupKey(ws[i], jw[n][2][2])
             /\ \A m \in 1..Len(weather_minmax) :
                  \E n \in 1..Len(jw) :
                     weather_minmax[m][1] = groupKey(jw[n][2][1], jw[n][2][2])

C4_Witness ==
    /\ pc = "done"
    /\ Len(weather) = 2
    /\ Matches(weather[1]) # {}
    /\ Matches(weather[2]) = {}
    /\ \E j \in 1..Len(stations) : stations[j].usaf = weather[2].usaf
    /\ Len(joined_weather) = 1
    /\ Len(weather_minmax) = 1

\* The number of weather records that match a station.
NumMatched == Cardinality({i \in 1..Len(weather) : Matches(weather[i]) # {}})

\* C5 as stated: one joined pair per matching weather record, however many
\* stations share its identity.
C5_OnePairPerWeatherRecord ==
    pc = "done" => Len(joined_weather) = NumMatched

\* C5 amended: the join yields one pair for every combination of a weather
\* record and a station record of the same identity, so a weather record
\* whose identity k station records share is in k pairs and is attributed
\* to the (country, year) group of each of them.
C5_OnePairPerStationMatch ==
    pc = "done" =>
        LET ws == weather
            ss == stations
            jw == joined_weather
        IN  /\ Len(jw) = Cardinality({x \in (1..Len(ws)) \X (1..Len(ss)) :
                                         ident(ws[x[1]]) = ident(ss[x[2]])})
            /\ \A i \in 1..Len(ws) : \A j \in Matches(ws[i]) :
                  /\ \E n \in 1..Len(jw) : jw[n][2] = <<ws[i], ss[j]>>
                  /\ \E m \in 1..Len(weather_minmax) :
                        weather_minmax[m][1] = groupKey(ws[i], ss[j])

C5_Witness ==
    /\ pc = "done"
    /\ Len(stations) = 2
    /\ ident(stations[1]) = ident(stations[2])
    /\ stations[1].country # stations[2].country
    /\ Len(weather) = 1
    /\ Len(joined_weather) = 2
    /\ Len(weather_minmax) = 2

\* The group keys among the joined pairs.
GroupKeys ==
    LET jw == joined_weather
    IN  {groupKey(jw[n][2][1], jw[n][2][2]) : n \in 1..Len(jw)}

\* The weather records of the joined pairs of one group key, in join order.
GroupRecords(k) ==
    LET members == SelectSeq(joined_weather,
                             LAMBDA e : groupKey(e[2][1], e[2][2]) = k)
    IN  [n \in 1..Len(members) |-> members[n][2][1]]

\* C6: the job yields one row per group key (station country, first four
\* characters of the weather date) among the joined pairs and none for any
\* other key; the row's accumulator is the fold of the weather records of
\* the joined pairs of that key, and the output holds the row's line.
C6_OneRowPerGroupKey ==
    pc = "done" =>
        /\ Len(weather_minmax) = Cardinality(GroupKeys)
        /\ {weather_minmax[m][1] : m \in 1..Len(weather_minmax)} = GroupKeys
        /\ \A m \in 1..Len(weather_minmax) :
              weather_minmax[m][2] =
                  FoldRecords(WeatherMinMax, GroupRecords(weather_minmax[m][1]))
        /\ fs[Argv.output] =
              Some([m \in 1..Len(weather_minmax) |-> format_result(weather_minmax[m])])

C6_Witness ==
    /\ pc = "done"
    /\ Len(joined_weather) = 2
    /\ joined_weather[1][1] # joined_weather[2][1]
    /\ weather_minmax =
          << << <<"US", "2023">>,
                [minTemperature |-> Some(-20), maxTemperature |-> Some(50),
                 minWindSpeed |-> Some(30), maxWindSpeed |-> Some(30)] >> >>

\* C7 as stated: when the output location exists already the run never
\* completes and what the location holds is never replaced.
C7_ExistingOutputIsFatal ==
    preexisting => pc # "done" /\ fs[Argv.output] = StaleOutput

\* C7 amended: the context is created with output validation switched off,
\* so an output location that exists already does not fail the run: the
\* job runs to its end and writes its lines into the location, over the
\* part files that were there.
C7_ExistingOutputIsReplaced ==
    /\ pc # "failed"
    /\ pc \in {"context", "done"} => conf.validateOutputSpecs = "false"
    /\ (preexisting /\ pc = "done") =>
          fs[Argv.output] =
              Some([m \in 1..Len(weather_minmax) |-> format_result(weather_minmax[m])])

C7_Witness ==
    /\ preexisting
    /\ pc = "done"
    /\ Len(weather_minmax) = 1
    /\ fs[Argv.output] # StaleOutput
    /\ Len(fs[Argv.output][1]) = 1

\* What the line shows for one extremum.
Rendered(x) == IF x = None THEN "0.000000" ELSE percent_f(x[1])

\* C8: the line is country, year, minTemperature, maxTemperature,
\* minWindSpeed, maxWindSpeed in that order, comma separated, each extremum
\* shown as 0.0 when it is None and as its own value otherwise.
C8_FormatRendersRow ==
    ret.fn = "format_result" =>
        LET k == call.args[1][1]
            v == call.args[1][2]
        IN  ret.line = k[1] \o "," \o k[2] \o "," \o Rendered(v.minTemperature)
                         \o "," \o Rendered(v.maxTemperature)
                         \o "," \o Rendered(v.minWindSpeed)
                         \o "," \o Rendered(v.maxWindSpeed)

C8_Witness ==
    /\ ret.fn = "format_result"
    /\ call.args[1] = << <<"US", "2023">>,
                         [minTemperature |-> Some(-20), maxTemperature |-> Some(50),
                          minWindSpeed |-> None, maxWindSpeed |-> Some(0)] >>
    /\ ret.line = "US,2023,-2.000000,5.000000,0.000000,0.000000"

\* C9 as stated: a date of fewer than four characters makes the extraction
\* fail with MalformedDateError and no key with a shorter year is returned.
C9_ShortDateRaises ==
    (ret.fn = "extract_country_year_weather" /\ Len(call.args[1][2][1].date) < 4) =>
        ret.raised = "MalformedDateError"

\* C9 amended: the extraction never fails; the year of the key is the first
\* four characters of the date, and the whole date when it has fewer than
\* four characters.
C9_ShortDateGivesShortYear ==
    ret.fn = "extract_country_year_weather" =>
        LET date == call.args[1][2][1].date
            key == ret.value[1]
        IN  /\ ret.raised = "none"
            /\ key[1] = call.args[1][2][2].country
            /\ ret.value[2] = call.args[1][2][1]
            /\ IF Len(date) < 4 THEN key[2] = date
               ELSE Len(key[2]) = 4 /\ key[2] = SubSeq(date, 1, 4)

C9_Witness ==
    /\ ret.fn = "extract_country_year_weather"
    /\ call.args[1][2][1].date = "202"
    /\ ret.raised = "none"
    /\ ret.value[1] = <<"DE", "202">>

\* Whether what partition r folded is part of the partial of partition p.
RECURSIVE Feeds(_, _)
Feeds(r, p) == r = p \/ (mergedInto[r] # 0 /\ Feeds(mergedInto[r], p))

\* The records absorbed, directly or through merges, into the partial of p.
RecordsOf(p) == {i \in DOMAIN placed : placed[i] # 0 /\ Feeds(placed[i], p)}

\* An accumulator whose every extremum is a present value of one of the
\* given records on that axis, with min <= max on each axis.
WellFormed(acc, records) ==
    LET temps == {observations[i].temperatureCelsius : i \in records} \ {None}
        winds == {observations[i].windSpeedMs : i \in records} \ {None}
    IN  /\ acc.minTemperature # None => acc.minTemperature \in temps
        /\ acc.maxTemperature # None => acc.maxTemperature \in temps
        /\ acc.minWindSpeed # None => acc.minWindSpeed \in winds
        /\ acc.maxWindSpeed # None => acc.maxWindSpeed \in winds
        /\ (acc.minTemperature # None /\ acc.maxTemperature # None)
              => acc.minTemperature[1] <= acc.maxTemperature[1]
        /\ (acc.minWindSpeed # None /\ acc.maxWindSpeed # None)
              => acc.minWindSpeed[1] <= acc.maxWindSpeed[1]

\* C10: after any absorbs and merges from all-None accumulators, every
\* extremum of every accumulator that is not None is a present value of a
\* record absorbed into it, on that axis, and min <= max on each axis.
C10_AccumulatorInvariant ==
    /\ \A p \in Partitions : WellFormed(partial[p], RecordsOf(p))
    /\ WellFormed(whole.acc, IF whole.done THEN DOMAIN observations ELSE {})

C10_Witness ==
    \E p \in Partitions : \E q \in Partitions :
        /\ mergedInto[q] = p
        /\ mergedInto[p] = 0
        /\ \E i \in DOMAIN placed : placed[i] = q
        /\ Cardinality(RecordsOf(p)) = 3
        /\ \E i \in RecordsOf(p) : observations[i].temperatureCelsius = None
        /\ partial[p].minTemperature = Some(-20)
        /\ partial[p].maxTemperature = Some(50)
        /\ partial[p].minWindSpeed = None

====
